---- MODULE Spec2Model ----
(***************************************************************************)
(* The RNNs notebook as a state machine: the cells run top to bottom, one  *)
(* statement (or one loop iteration) per action.                           *)
(*                                                                         *)
(* Tensors are abstracted: an embedding row is one integer (0 is the zero  *)
(* vector), the recurrent and dense weights of a model are one integer     *)
(* (theta), a shape is a sequence of naturals.  The library calls (RNG,    *)
(* dropout, loss, autograd, Adam) are deterministic integer functions that *)
(* keep what the notebook relies on: which rows receive gradient, which    *)
(* calls consume random numbers, and which parameters a step may move.     *)
(***************************************************************************)
EXTENDS Integers, Sequences, FiniteSets, TLC

VARIABLES
    pc,                  \* the statement the notebook is about to run
    reviewVocabVectors,  \* the loaded pretrained matrix (row -> value)
    trainIterator,       \* the loaded training batch stream
    testIterator,        \* the loaded evaluation batch stream
    mi,                  \* index into `models` of the running for-loop
    epoch,               \* `epoch` of range(numEpochs)
    bi,                  \* batches of the current iteration already taken
    batch,               \* the current `batch`
    runs,                \* per process: RNG, models, optimizer, scalars, output
    unit                 \* a direct caller of MyRNN / forward / batchAccuracy

vars == <<pc, reviewVocabVectors, trainIterator, testIterator, mi, epoch, bi,
          batch, runs, unit>>

-----------------------------------------------------------------------------
(* Hyperparameters of the notebook *)

embeddingSize == 100
hiddenSize == 10
numEpochs == 5
\* 20002 in the notebook; the model keeps the two reserved rows and one word
vocabSize == 3
pad == 1
unk == 0
\* 1 / (1 - dropoutRate) with dropoutRate = 0.5: what a kept unit is scaled by
dropoutScale == 2

(* Bounds of the model *)

\* examples in one batch stream
MaxExamples == 3
\* examples per batch of the pickled iterators
BatchSize == 2
\* the generator's state space
RngMod == 6
\* largest value of a reserved row of the pretrained matrix
MaxPre == 1
\* largest factor a caller rescales logits by
MaxScale == 3
\* largest |logit| a caller hands to batchAccuracy
MaxLogit == 2

Rows == 0 .. (vocabSize - 1)
word == vocabSize - 1

Tags == <<"RNN", "GRU", "LSTM", "BiLSTM">>
TagSet == {Tags[i] : i \in 1..Len(Tags)}
\* what a caller may pass besides the four tags
OtherTags == {"lstm", "BiGRU"}

\* an unbound name, an absent object
None == [none |-> TRUE]
\* no exception raised
Ok == "ok"

-----------------------------------------------------------------------------
(* Arithmetic helpers *)

Max(a, b) == IF a >= b THEN a ELSE b
Min(a, b) == IF a <= b THEN a ELSE b
Sign(x) == IF x > 0 THEN 1 ELSE IF x < 0 THEN -1 ELSE 0

RECURSIVE SumSeq(_)
SumSeq(s) == IF s = <<>> THEN 0 ELSE s[1] + SumSeq(Tail(s))

RECURSIVE Gcd(_, _)
Gcd(a, b) == IF b = 0 THEN a ELSE Gcd(b, a % b)

RECURSIVE LcmUpTo(_)
LcmUpTo(n) == IF n <= 1 THEN 1 ELSE (LcmUpTo(n - 1) * n) \div Gcd(LcmUpTo(n - 1), n)

\* fractions with denominator <= BatchSize are kept as integers over Unit
Unit == LcmUpTo(BatchSize)

-----------------------------------------------------------------------------
(* The RNG: torch.manual_seed and the draws of the library *)

\* the seed is ignored
manual_seed_ignored(s, seed) == s

manual_seed(s, seed) == [s EXCEPT !.rng = seed % RngMod]

RandVal(g) == (g % 3) - 1
Advance(g, n) == (g + n) % RngMod

-----------------------------------------------------------------------------
(* class MyRNN *)

\* nn.Embedding(vocabSize, embeddingSize, padding_idx): N(0,1) rows, then the
\* padding row is filled with zeros
Embedding(g, padding_idx) ==
    [shape |-> <<vocabSize, embeddingSize>>,
     padding_idx |-> padding_idx,
     weight |-> [r \in Rows |-> IF r = padding_idx THEN 0
                                ELSE RandVal(Advance(g, r))]]

RnnCell(kind, bidirectional) ==
    [kind |-> kind, input_size |-> embeddingSize, hidden_size |-> hiddenSize,
     bidirectional |-> bidirectional]

\* the width is not doubled for the bidirectional variant
DenseWidthSingle(bidir) == hiddenSize

DenseWidth(bidir) == hiddenSize * (IF bidir THEN 2 ELSE 1)

MyRNN(model, g) ==
    LET lstm == (model = "LSTM" \/ model = "BiLSTM")
        bidir == (model = "BiLSTM")
    IN [name |-> model,
        LSTM |-> lstm,
        bidir |-> bidir,
        embed |-> Embedding(g, pad),
        rnn |-> IF model = "RNN" THEN RnnCell("RNN", FALSE)
                ELSE IF model = "GRU" THEN RnnCell("GRU", FALSE)
                ELSE RnnCell("LSTM", bidir),
        dense |-> [in_features |-> DenseWidth(bidir), out_features |-> 1],
        theta |-> RandVal(Advance(g, vocabSize)),
        \* .grad of embed.weight and of the other parameters (None reads as 0)
        grad |-> [weight |-> [r \in Rows |-> 0], theta |-> 0],
        training |-> TRUE]

\* how far one construction moves the generator
CtorDraws == vocabSize + 1

-----------------------------------------------------------------------------
(* Batches: what the pickled iterators yield *)

Examples == {[text |-> <<word>>, label |-> 0], [text |-> <<word, unk>>, label |-> 1]}

\* batch[0] = (text, textLen) with text of shape (T, B), batch[1] = label
MakeBatch(exs) ==
    LET B == Len(exs)
        T == Len(exs[1].text)
    IN [text |-> [t \in 1..T |-> [e \in 1..B |->
                    IF t <= Len(exs[e].text) THEN exs[e].text[t] ELSE pad]],
        textLen |-> [e \in 1..B |-> Len(exs[e].text)],
        label |-> [e \in 1..B |-> exs[e].label]]

NumBatches(n) == (n + BatchSize - 1) \div BatchSize

\* the iterators sort each batch by decreasing length (pack_padded_sequence
\* rejects any other order)
SortedChunks(ds) ==
    \A i \in 1..(Len(ds) - 1) :
        ((i - 1) \div BatchSize = i \div BatchSize)
            => Len(ds[i].text) >= Len(ds[i + 1].text)

Datasets ==
    {ds \in UNION {[1..n -> Examples] : n \in 1..MaxExamples} : SortedChunks(ds)}

Stream(ds) ==
    [j \in 1..NumBatches(Len(ds)) |->
        MakeBatch(SubSeq(ds, (j - 1) * BatchSize + 1, Min(j * BatchSize, Len(ds))))]

Streams == {Stream(ds) : ds \in Datasets}

Pretrained ==
    {[r \in Rows |-> IF r = unk THEN u ELSE IF r = pad THEN p ELSE 1] :
        u \in 0..MaxPre, p \in 0..MaxPre}

BatchLen(b) == Len(b.label)

-----------------------------------------------------------------------------
(* MyRNN.forward *)

Keep(g) == (g % 3) # 1

\* nn.Dropout: identity in evaluation mode
DropFactor(training, g) ==
    IF ~training THEN 1 ELSE IF Keep(g) THEN dropoutScale ELSE 0

\* what self.rnn returns beside the packed output
RnnHidden(m, B) ==
    [tuple |-> (m.rnn.kind = "LSTM"),
     shape |-> <<(IF m.rnn.bidirectional THEN 2 ELSE 1), B, m.rnn.hidden_size>>]

\* lines 138-141: `packedOutput, (hidden, cell) = ...` or `packedOutput, hidden = ...`
Unpack(m, B) ==
    LET r == RnnHidden(m, B) IN
    IF m.LSTM
    THEN IF r.tuple \/ r.shape[1] = 2
         THEN [err |-> Ok, tuple |-> FALSE,
               shape |-> IF r.tuple THEN r.shape ELSE Tail(r.shape)]
         ELSE [err |-> "ValueError", tuple |-> FALSE, shape |-> <<>>]
    ELSE [err |-> Ok, tuple |-> r.tuple, shape |-> r.shape]

\* hidden[0] whatever the directionality
SelectFirst(m, B) ==
    LET h == Unpack(m, B) IN
    IF h.err # Ok THEN h
    ELSE [err |-> Ok, tuple |-> FALSE,
          shape |-> IF h.tuple THEN h.shape ELSE Tail(h.shape)]

\* lines 145-148: the representation handed to the classifier
Select(m, B) ==
    LET h == Unpack(m, B) IN
    IF h.err # Ok THEN h
    ELSE IF m.bidir
    THEN IF h.tuple THEN [err |-> "TypeError", tuple |-> FALSE, shape |-> <<>>]
         ELSE IF Len(h.shape) # 3 \/ h.shape[1] < 2
              THEN [err |-> "IndexError", tuple |-> FALSE, shape |-> <<>>]
              ELSE [err |-> Ok, tuple |-> FALSE,
                    shape |-> <<h.shape[2], 2 * h.shape[3]>>]
    ELSE [err |-> Ok, tuple |-> FALSE,
          shape |-> IF h.tuple THEN h.shape ELSE Tail(h.shape)]

\* nn.Linear: the last axis must be in_features wide
Linear(dense, x) ==
    IF x.err # Ok THEN x
    ELSE IF x.shape = <<>> \/ x.shape[Len(x.shape)] # dense.in_features
    THEN [err |-> "RuntimeError", tuple |-> FALSE, shape |-> <<>>]
    ELSE [err |-> Ok, tuple |-> FALSE,
          shape |-> SubSeq(x.shape, 1, Len(x.shape) - 1) \o <<dense.out_features>>]

ForwardShape(m, B) == Linear(m.dense, Select(m, B))

\* occurrences of row r among the first textLen[e] positions of example e
Occurs(b, e, r) == Cardinality({t \in 1..b.textLen[e] : b.text[t][e] = r})

\* forward(text, textLengths) with the generator at g: the logits, their shape,
\* and the factors autograd needs to differentiate them (none under no_grad)
forward(m, b, g, gradEnabled) ==
    LET fE == DropFactor(m.training, g)
        fH == DropFactor(m.training, Advance(g, 1))
        sh == ForwardShape(m, BatchLen(b))
        hidden(e) == m.theta
                     + SumSeq([t \in 1..b.textLen[e] |-> fE * m.embed.weight[b.text[t][e]]])
    IN [err |-> sh.err,
        shape |-> sh.shape,
        vals |-> [e \in 1..BatchLen(b) |-> fH * hidden(e)],
        graph |-> IF gradEnabled THEN [fE |-> fE, fH |-> fH] ELSE None]

\* dropout draws twice per call in training mode, never in evaluation mode
ForwardDraws(m) == IF m.training THEN 2 ELSE 0

\* Tensor.squeeze(d), d counted from 0
Squeeze(shape, d) ==
    IF d + 1 <= Len(shape) /\ shape[d + 1] = 1
    THEN SubSeq(shape, 1, d) \o SubSeq(shape, d + 2, Len(shape))
    ELSE shape

-----------------------------------------------------------------------------
(* criterion, autograd, Adam, batchAccuracy *)

\* nn.BCEWithLogitsLoss (mean), in units of 1/Unit
ExampleLoss(z, y) == 1 + Max(0, IF y = 1 THEN -z ELSE z)

criterion(preds, targets) ==
    (SumSeq([e \in 1..Len(targets) |-> ExampleLoss(preds.vals[e], targets[e])]) * Unit)
        \div Len(targets)

\* d loss / d logit has the sign of sigmoid(z) - y
LogitGrad(y) == IF y = 1 THEN -1 ELSE 1

\* loss.backward(): adds to .grad; the padding row never receives gradient
backward(m, b, preds) ==
    LET gr == preds.graph
        gTheta == SumSeq([e \in 1..BatchLen(b) |-> LogitGrad(b.label[e]) * gr.fH])
        gRow(r) == IF r = m.embed.padding_idx THEN 0
                   ELSE SumSeq([e \in 1..BatchLen(b) |->
                            LogitGrad(b.label[e]) * gr.fH * gr.fE * Occurs(b, e, r)])
    IN [m EXCEPT !.grad = [weight |-> [r \in Rows |-> m.grad.weight[r] + gRow(r)],
                           theta |-> m.grad.theta + gTheta]]

\* optimizer.zero_grad()
zero_grad(m) == [m EXCEPT !.grad = [weight |-> [r \in Rows |-> 0], theta |-> 0]]

\* torch.optim.Adam(model.parameters()): first moments start at zero
Adam(owner) ==
    [owner |-> owner, step |-> 0, m |-> [weight |-> [r \in Rows |-> 0], theta |-> 0]]

\* the sign of Adam's first moment after seeing gradient g
Moment(old, g) == IF g # 0 THEN Sign(g) ELSE old

\* optimizer.step(): a parameter moves against its first moment, one step of
\* size lr; zero gradient and zero moment leave it where it is
AdamStep(opt, m) ==
    LET mw == [r \in Rows |-> Moment(opt.m.weight[r], m.grad.weight[r])]
        mt == Moment(opt.m.theta, m.grad.theta)
    IN [opt |-> [opt EXCEPT !.m = [weight |-> mw, theta |-> mt], !.step = @ + 1],
        model |-> [m EXCEPT !.embed.weight = [r \in Rows |-> m.embed.weight[r] - mw[r]],
                            !.theta = m.theta - mt]]

\* the threshold sits above zero, as if the logit were a probability
RoundedAboveZero(z) == IF z >= 2 THEN 1 ELSE 0

\* a logit of exactly zero counts as negative
RoundedStrict(z) == IF z > 0 THEN 1 ELSE 0

\* roundedPreds = (preds >= 0)
Rounded(z) == IF z >= 0 THEN 1 ELSE 0

\* the number of hits, not divided by len(preds)
batchAccuracyCount(preds, targets) ==
    Cardinality({e \in 1..Len(preds) : Rounded(preds[e]) = targets[e]}) * Unit

\* (roundedPreds == targets).sum().item() / len(preds), in units of 1/Unit
batchAccuracy(preds, targets) ==
    (Cardinality({e \in 1..Len(preds) : Rounded(preds[e]) = targets[e]}) * Unit)
        \div Len(preds)

-----------------------------------------------------------------------------
(* The state of one process running the notebook *)

InitRun(g) ==
    [rng |-> g,
     models |-> <<>>,
     optimizer |-> None,
     predictions |-> None,
     \* the scalars read 0 until the notebook assigns them
     loss |-> 0,
     epochLoss |-> 0,
     accuracy |-> 0,
     acc |-> 0,
     gradEnabled |-> TRUE,
     out |-> None,
     \* history, not read by the program: the calls made for the current batch,
     \* the loss.item() values of the current epoch, the values batchAccuracy
     \* returned for the current variant, and per-variant counters
     ops |-> <<>>,
     losses |-> <<>>,
     accs |-> <<>>,
     seeds |-> 0,
     optimizers |-> 0,
     epochs |-> 0]

UnitIdle == [pc |-> "idle"]

Did(s, op) == [s EXCEPT !.ops = Append(@, op)]

\* every process takes the same step
Each(F(_)) == runs' = [r \in DOMAIN runs |-> F(runs[r])]

MainInit(ids) ==
    /\ pc = "seed"
    /\ reviewVocabVectors = None
    /\ trainIterator = None
    /\ testIterator = None
    /\ mi = 0
    /\ epoch = 0
    /\ bi = 0
    /\ batch = None
    /\ runs \in [ids -> {InitRun(g) : g \in 0..(RngMod - 1)}]

Init == MainInit({1}) /\ unit = UnitIdle

-----------------------------------------------------------------------------
(* Cells 4-8: seed, load, build the four models, initialise the embeddings *)

DoSeed(s) == manual_seed(s, 0)

\* lines 78-80
Seed ==
    /\ pc = "seed"
    /\ Each(DoSeed)
    /\ pc' = "load"
    /\ UNCHANGED <<reviewVocabVectors, trainIterator, testIterator, mi, epoch, bi,
                   batch, unit>>

\* lines 89-91
Load ==
    /\ pc = "load"
    /\ reviewVocabVectors' \in Pretrained
    /\ trainIterator' \in Streams
    /\ testIterator' \in Streams
    /\ pc' = "construct"
    /\ UNCHANGED <<mi, epoch, bi, batch, runs, unit>>

DoConstruct(s) ==
    [s EXCEPT !.models = Append(@, MyRNN(Tags[Len(s.models) + 1], s.rng)),
              !.rng = Advance(@, CtorDraws)]

\* lines 159-164, one constructor call at a time
Construct ==
    /\ pc = "construct"
    /\ Each(DoConstruct)
    /\ pc' = IF \A r \in DOMAIN runs : Len(runs[r].models) + 1 = Len(Tags)
             THEN "initEmbed" ELSE "construct"
    /\ UNCHANGED <<reviewVocabVectors, trainIterator, testIterator, mi, epoch, bi,
                   batch, unit>>

\* the copy alone, no row zeroed afterwards
InitEmbeddingCopyOnly(m, vectors) ==
    [m EXCEPT !.embed.weight = [r \in Rows |-> vectors[r]]]

\* line 178 left out: the padding row keeps what copy_ wrote
InitEmbeddingUnkOnly(m, vectors) ==
    [m EXCEPT !.embed.weight = [r \in Rows |-> IF r = unk THEN 0 ELSE vectors[r]]]

\* lines 176-178 on one model
InitEmbedding(m, vectors) ==
    [m EXCEPT !.embed.weight =
        [r \in Rows |-> IF r = unk \/ r = pad THEN 0 ELSE vectors[r]]]

DoInitEmbed(s) == [s EXCEPT !.models[mi + 1] = InitEmbedding(@, reviewVocabVectors)]

\* lines 173-178, one iteration of the loop
InitEmbed ==
    /\ pc = "initEmbed"
    /\ Each(DoInitEmbed)
    /\ mi' = IF mi + 1 = Len(Tags) THEN 0 ELSE mi + 1
    /\ pc' = IF mi + 1 = Len(Tags) THEN "trainMode" ELSE "initEmbed"
    /\ UNCHANGED <<reviewVocabVectors, trainIterator, testIterator, epoch, bi,
                   batch, unit>>

-----------------------------------------------------------------------------
(* Cell 10: the training loop *)

SetTraining(s, flag) ==
    [s EXCEPT !.models = [i \in DOMAIN s.models |-> [s.models[i] EXCEPT !.training = flag]]]

DoTrainMode(s) == SetTraining(s, TRUE)

\* lines 239-241
TrainMode ==
    /\ pc = "trainMode"
    /\ Each(DoTrainMode)
    /\ pc' = "trainLoop"
    /\ UNCHANGED <<reviewVocabVectors, trainIterator, testIterator, mi, epoch, bi,
                   batch, unit>>

DoNextVariant(s) == [s EXCEPT !.seeds = 0, !.optimizers = 0, !.epochs = 0]

\* line 243: for model in models
TrainLoop ==
    /\ pc = "trainLoop"
    /\ IF mi < Len(Tags)
       THEN /\ mi' = mi + 1
            /\ Each(DoNextVariant)
            /\ pc' = "seed247"
       ELSE /\ mi' = 0
            /\ UNCHANGED runs
            /\ pc' = "evalMode"
    /\ UNCHANGED <<reviewVocabVectors, trainIterator, testIterator, epoch, bi,
                   batch, unit>>

DoReseed(s) == [manual_seed(s, 0) EXCEPT !.seeds = @ + 1]

\* line 247
Reseed ==
    /\ pc = "seed247"
    /\ Each(DoReseed)
    /\ pc' = "optimizer"
    /\ UNCHANGED <<reviewVocabVectors, trainIterator, testIterator, mi, epoch, bi,
                   batch, unit>>

\* one optimizer, over the first model's parameters, for every variant
DoOptimizerFirst(s) == [s EXCEPT !.optimizer = Adam(1), !.optimizers = @ + 1]

DoOptimizer(s) == [s EXCEPT !.optimizer = Adam(mi), !.optimizers = @ + 1]

\* line 248
Optimizer ==
    /\ pc = "optimizer"
    /\ Each(DoOptimizer)
    /\ pc' = "epochLoop"
    /\ UNCHANGED <<reviewVocabVectors, trainIterator, testIterator, mi, epoch, bi,
                   batch, unit>>

\* epochLoss set to 0 once, not at the start of every epoch
DoEpochStartNoReset(s) ==
    [s EXCEPT !.losses = <<>>]

DoEpochStart(s) == [s EXCEPT !.epochLoss = 0, !.losses = <<>>]

\* lines 249-250: for epoch in range(numEpochs): epochLoss = 0
EpochLoop ==
    /\ pc = "epochLoop"
    /\ IF epoch < numEpochs
       THEN /\ epoch' = epoch + 1
            /\ Each(DoEpochStart)
            /\ pc' = "batchLoop"
       ELSE /\ epoch' = 0
            /\ UNCHANGED runs
            /\ pc' = "print260"
    /\ bi' = 0
    /\ UNCHANGED <<reviewVocabVectors, trainIterator, testIterator, mi, batch, unit>>

DoNextBatch(s) == [s EXCEPT !.ops = <<>>]

\* line 251: for batch in trainIterator
BatchLoop ==
    /\ pc = "batchLoop"
    /\ IF bi < Len(trainIterator)
       THEN /\ bi' = bi + 1
            /\ batch' = trainIterator[bi + 1]
            /\ Each(DoNextBatch)
            /\ pc' = "zero_grad"
       ELSE /\ UNCHANGED <<bi, batch, runs>>
            /\ pc' = "print259"
    /\ UNCHANGED <<reviewVocabVectors, trainIterator, testIterator, mi, epoch, unit>>

DoZeroGrad(s) ==
    Did([s EXCEPT !.models[s.optimizer.owner] = zero_grad(@)], "zero_grad")

\* line 252
ZeroGrad ==
    /\ pc = "zero_grad"
    /\ Each(DoZeroGrad)
    /\ pc' = "forward"
    /\ UNCHANGED <<reviewVocabVectors, trainIterator, testIterator, mi, epoch, bi,
                   batch, unit>>

\* model(text, textLen).squeeze(1)
Predict(s, i) ==
    LET m == s.models[i]
        p == forward(m, batch, s.rng, s.gradEnabled)
    IN [s EXCEPT !.predictions = [err |-> p.err, returned |-> p.shape,
                                  shape |-> Squeeze(p.shape, 1),
                                  vals |-> p.vals, graph |-> p.graph],
                 !.rng = Advance(@, ForwardDraws(m))]

Raised == \E r \in DOMAIN runs : runs[r].predictions.err # Ok

DoForward(s) == Did(Predict(s, mi), "forward")

\* lines 253-254
Forward ==
    /\ pc = "forward"
    /\ Each(DoForward)
    /\ pc' = IF Raised' THEN "raised" ELSE "criterion"
    /\ UNCHANGED <<reviewVocabVectors, trainIterator, testIterator, mi, epoch, bi,
                   batch, unit>>

\* the loss raises unless predictions and targets have the same shape
SameShape(s) == s.predictions.shape = <<BatchLen(batch)>>

DoLoss(s) ==
    Did([s EXCEPT !.loss = IF SameShape(s) THEN criterion(s.predictions, batch.label)
                           ELSE @], "criterion")

\* line 255
Loss ==
    /\ pc = "criterion"
    /\ Each(DoLoss)
    /\ pc' = IF \A r \in DOMAIN runs : SameShape(runs[r]) THEN "backward" ELSE "raised"
    /\ UNCHANGED <<reviewVocabVectors, trainIterator, testIterator, mi, epoch, bi,
                   batch, unit>>

DoBackward(s) ==
    Did([s EXCEPT !.models[mi] = backward(@, batch, s.predictions)], "backward")

\* line 256
Backward ==
    /\ pc = "backward"
    /\ Each(DoBackward)
    /\ pc' = "step"
    /\ UNCHANGED <<reviewVocabVectors, trainIterator, testIterator, mi, epoch, bi,
                   batch, unit>>

DoStep(s) ==
    LET o == s.optimizer
        r == AdamStep(o, s.models[o.owner])
    IN Did([s EXCEPT !.optimizer = r.opt, !.models[o.owner] = r.model], "step")

\* line 257
Step ==
    /\ pc = "step"
    /\ Each(DoStep)
    /\ pc' = "accumulate"
    /\ UNCHANGED <<reviewVocabVectors, trainIterator, testIterator, mi, epoch, bi,
                   batch, unit>>

DoAccumulate(s) ==
    Did([s EXCEPT !.epochLoss = @ + s.loss, !.losses = Append(@, s.loss)], "accumulate")

\* line 258
Accumulate ==
    /\ pc = "accumulate"
    /\ Each(DoAccumulate)
    /\ pc' = "batchLoop"
    /\ UNCHANGED <<reviewVocabVectors, trainIterator, testIterator, mi, epoch, bi,
                   batch, unit>>

\* epochLoss / len(trainIterator), as numerator and denominator
MeanLoss(epochLoss, n) == <<epochLoss, Unit * n>>

DoPrintLoss(s) ==
    [s EXCEPT !.out = [line |-> "Train Loss", model |-> s.models[mi].name,
                       epoch |-> epoch,
                       value |-> MeanLoss(s.epochLoss, Len(trainIterator))],
              !.epochs = @ + 1]

\* line 259
PrintLoss ==
    /\ pc = "print259"
    /\ Each(DoPrintLoss)
    /\ pc' = "epochLoop"
    /\ UNCHANGED <<reviewVocabVectors, trainIterator, testIterator, mi, epoch, bi,
                   batch, unit>>

\* line 260
PrintBlank ==
    /\ pc = "print260"
    /\ pc' = "trainLoop"
    /\ UNCHANGED <<reviewVocabVectors, trainIterator, testIterator, mi, epoch, bi,
                   batch, runs, unit>>

-----------------------------------------------------------------------------
(* Cell 12: the evaluation loop *)

\* model.eval() left out
DoEvalModeSkipped(s) == s

DoEvalMode(s) == SetTraining(s, FALSE)

\* lines 288-290
EvalMode ==
    /\ pc = "evalMode"
    /\ Each(DoEvalMode)
    /\ pc' = "no_grad"
    /\ UNCHANGED <<reviewVocabVectors, trainIterator, testIterator, mi, epoch, bi,
                   batch, unit>>

DoNoGrad(s) == [s EXCEPT !.gradEnabled = FALSE]

\* line 292: with torch.no_grad()
NoGrad ==
    /\ pc = "no_grad"
    /\ Each(DoNoGrad)
    /\ pc' = "evalLoop"
    /\ UNCHANGED <<reviewVocabVectors, trainIterator, testIterator, mi, epoch, bi,
                   batch, unit>>

DoEvalStart(s) == [s EXCEPT !.accuracy = 0, !.accs = <<>>]

\* lines 293-296: for model in models: accuracy = 0.0
EvalLoop ==
    /\ pc = "evalLoop"
    /\ IF mi < Len(Tags)
       THEN /\ mi' = mi + 1
            /\ Each(DoEvalStart)
            /\ pc' = "evalBatchLoop"
       ELSE /\ mi' = 0
            /\ UNCHANGED runs
            /\ pc' = "exit_no_grad"
    /\ bi' = 0
    /\ UNCHANGED <<reviewVocabVectors, trainIterator, testIterator, epoch, batch, unit>>

\* line 297: for batch in testIterator
EvalBatchLoop ==
    /\ pc = "evalBatchLoop"
    /\ IF bi < Len(testIterator)
       THEN /\ bi' = bi + 1
            /\ batch' = testIterator[bi + 1]
            /\ Each(DoNextBatch)
            /\ pc' = "evalForward"
       ELSE /\ UNCHANGED <<bi, batch, runs>>
            /\ pc' = "print303"
    /\ UNCHANGED <<reviewVocabVectors, trainIterator, testIterator, mi, epoch, unit>>

\* lines 298-299
EvalForward ==
    /\ pc = "evalForward"
    /\ Each(DoForward)
    /\ pc' = IF Raised' THEN "raised" ELSE "evalCriterion"
    /\ UNCHANGED <<reviewVocabVectors, trainIterator, testIterator, mi, epoch, bi,
                   batch, unit>>

\* line 300
EvalLoss ==
    /\ pc = "evalCriterion"
    /\ Each(DoLoss)
    /\ pc' = IF \A r \in DOMAIN runs : SameShape(runs[r]) THEN "evalAccuracy" ELSE "raised"
    /\ UNCHANGED <<reviewVocabVectors, trainIterator, testIterator, mi, epoch, bi,
                   batch, unit>>

DoEvalAccuracy(s) ==
    LET a == batchAccuracy(s.predictions.vals, batch.label)
    IN Did([s EXCEPT !.acc = a, !.accuracy = @ + a, !.accs = Append(@, a)],
           "batchAccuracy")

\* lines 301-302
EvalAccuracy ==
    /\ pc = "evalAccuracy"
    /\ Each(DoEvalAccuracy)
    /\ pc' = "evalBatchLoop"
    /\ UNCHANGED <<reviewVocabVectors, trainIterator, testIterator, mi, epoch, bi,
                   batch, unit>>

\* accuracy / len(testIterator) * 100, as numerator and denominator
Percent(accuracy, n) == <<accuracy * 100, Unit * n>>

DoPrintAccuracy(s) ==
    [s EXCEPT !.out = [line |-> "Validation Accuracy", model |-> s.models[mi].name,
                       epoch |-> 0,
                       value |-> Percent(s.accuracy, Len(testIterator))]]

\* line 303
PrintAccuracy ==
    /\ pc = "print303"
    /\ Each(DoPrintAccuracy)
    /\ pc' = "evalLoop"
    /\ UNCHANGED <<reviewVocabVectors, trainIterator, testIterator, mi, epoch, bi,
                   batch, unit>>

DoExitNoGrad(s) == [s EXCEPT !.gradEnabled = TRUE]

\* leaving the with block of line 292
ExitNoGrad ==
    /\ pc = "exit_no_grad"
    /\ Each(DoExitNoGrad)
    /\ pc' = "done"
    /\ UNCHANGED <<reviewVocabVectors, trainIterator, testIterator, mi, epoch, bi,
                   batch, unit>>

Next ==
    \/ Seed \/ Load \/ Construct \/ InitEmbed
    \/ TrainMode \/ TrainLoop \/ Reseed \/ Optimizer \/ EpochLoop \/ BatchLoop
    \/ ZeroGrad \/ Forward \/ Loss \/ Backward \/ Step \/ Accumulate
    \/ PrintLoss \/ PrintBlank
    \/ EvalMode \/ NoGrad \/ EvalLoop \/ EvalBatchLoop \/ EvalForward \/ EvalLoss
    \/ EvalAccuracy \/ PrintAccuracy \/ ExitNoGrad

Spec == Init /\ [][Next]_vars

\* two processes run the notebook on the same files, step for step; what the
\* notebook does not set (the generator's state at start-up) may differ
InitRepro == MainInit({1, 2}) /\ unit = UnitIdle

SpecRepro == InitRepro /\ [][Next]_vars

-----------------------------------------------------------------------------
(* A caller that uses the class and the metric directly *)

Batches == UNION {{st[j] : j \in 1..Len(st)} : st \in Streams}

Logits == (0 - MaxLogit)..MaxLogit

UnitStarts ==
    {[pc |-> "new", tag |-> t, rng |-> g, batch |-> b] :
        t \in TagSet \cup OtherTags, g \in 0..(RngMod - 1), b \in Batches}
    \cup
    UNION {{[pc |-> "scoring", preds |-> p, targets |-> y, scale |-> c] :
                p \in [1..n -> Logits], y \in [1..n -> {0, 1}], c \in 1..MaxScale} :
            n \in 1..BatchSize}

InitUnit == MainInit({1}) /\ unit \in UnitStarts

\* MyRNN(model=tag)
UnitConstruct ==
    /\ unit.pc = "new"
    /\ unit' = [pc |-> "built", tag |-> unit.tag, rng |-> Advance(unit.rng, CtorDraws),
                batch |-> unit.batch, model |-> MyRNN(unit.tag, unit.rng)]
    /\ UNCHANGED <<pc, reviewVocabVectors, trainIterator, testIterator, mi, epoch,
                   bi, batch, runs>>

\* model(text, textLen)
UnitForward ==
    /\ unit.pc = "built"
    /\ unit' = [pc |-> "called", tag |-> unit.tag,
                rng |-> Advance(unit.rng, ForwardDraws(unit.model)),
                batch |-> unit.batch, model |-> unit.model,
                result |-> forward(unit.model, unit.batch, unit.rng, TRUE)]
    /\ UNCHANGED <<pc, reviewVocabVectors, trainIterator, testIterator, mi, epoch,
                   bi, batch, runs>>

\* the logits multiplied by a positive factor
Rescale(preds, c) == [e \in DOMAIN preds |-> c * preds[e]]

\* batchAccuracy on the logits and on the rescaled logits
UnitScore ==
    /\ unit.pc = "scoring"
    /\ unit' = [pc |-> "scored", preds |-> unit.preds, targets |-> unit.targets,
                scale |-> unit.scale,
                acc |-> batchAccuracy(unit.preds, unit.targets),
                accRescaled |-> batchAccuracy(Rescale(unit.preds, unit.scale),
                                              unit.targets)]
    /\ UNCHANGED <<pc, reviewVocabVectors, trainIterator, testIterator, mi, epoch,
                   bi, batch, runs>>

NextUnit == UnitConstruct \/ UnitForward \/ UnitScore

SpecUnit == InitUnit /\ [][NextUnit]_vars

-----------------------------------------------------------------------------
(* Properties *)

Runs == DOMAIN runs
ModelsOf(r) == DOMAIN runs[r].models
Weight(r, i) == runs[r].models[i].embed.weight

SetupPcs == {"seed", "load", "construct", "initEmbed"}
TrainBody == <<"zero_grad", "forward", "criterion", "backward", "step", "accumulate">>
TrainPcs == {"trainLoop", "seed247", "optimizer", "epochLoop", "batchLoop", "print259",
             "print260"} \cup {TrainBody[i] : i \in 1..Len(TrainBody)}
EvalLoopPcs == {"evalLoop", "evalBatchLoop", "evalForward", "evalCriterion",
                "evalAccuracy", "print303"}

\* the cell kind each tag names
KindOf(tag) ==
    CASE tag = "RNN" -> "RNN"
      [] tag = "GRU" -> "GRU"
      [] tag = "LSTM" -> "LSTM"
      [] tag = "BiLSTM" -> "LSTM"

\* C1: models[i] is built from the i-th of the tags RNN, GRU, LSTM, BiLSTM; its
\* recurrent cell is of the kind the tag names, it is bidirectional iff the tag
\* is BiLSTM, and its linear layer takes 2*hiddenSize inputs iff the tag is
\* BiLSTM and hiddenSize inputs otherwise, and gives one output.
C1_VariantArchitecture ==
    \A r \in Runs : \A i \in ModelsOf(r) :
        LET m == runs[r].models[i] IN
        /\ m.name = Tags[i]
        /\ m.rnn.kind = KindOf(Tags[i])
        /\ m.rnn.bidirectional = (Tags[i] = "BiLSTM")
        /\ m.bidir = (Tags[i] = "BiLSTM")
        /\ m.LSTM = (KindOf(Tags[i]) = "LSTM")
        /\ m.dense.in_features = (IF Tags[i] = "BiLSTM" THEN 2 * hiddenSize ELSE hiddenSize)
        /\ m.dense.out_features = 1

C1_Witness ==
    \E r \in Runs :
        /\ Len(runs[r].models) = Len(Tags)
        /\ runs[r].models[4].rnn.bidirectional
        /\ runs[r].models[4].dense.in_features = 2 * hiddenSize

\* C2: a caller that constructs MyRNN with a tag outside RNN, GRU, LSTM, BiLSTM
\* gets no model instance.
C2_UnknownTagRejected ==
    (unit.pc \in {"built", "called"}) => (unit.tag \in TagSet)

\* C3, as claimed: every constructed model has both reserved rows (unk, pad) at
\* zero from the moment it is constructed.
C3_ZeroAfterConstruction ==
    (pc \in {"construct", "initEmbed", "trainMode"}) =>
        \A r \in Runs : \A i \in ModelsOf(r) :
            Weight(r, i)[unk] = 0 /\ Weight(r, i)[pad] = 0

\* models the embedding initialisation loop (lines 173-178) has processed
Initialised == IF pc = "initEmbed" THEN 1..mi ELSE IF pc = "trainMode" THEN 1..Len(Tags) ELSE {}

\* C3, amended: before training, every constructed model has its pad row at zero,
\* and every model the embedding initialisation loop has processed has both
\* reserved rows at zero, whatever the pretrained matrix holds in those rows.
C3_ZeroAfterInitLoop ==
    (pc \in {"construct", "initEmbed", "trainMode"}) =>
        \A r \in Runs : \A i \in ModelsOf(r) :
            /\ Weight(r, i)[pad] = 0
            /\ (i \in Initialised) => Weight(r, i)[unk] = 0

C3_Witness ==
    /\ pc = "trainMode"
    /\ reviewVocabVectors[unk] # 0
    /\ reviewVocabVectors[pad] # 0
    /\ \A r \in Runs : \A i \in ModelsOf(r) : Weight(r, i)[unk] = 0 /\ Weight(r, i)[pad] = 0

FromTraining == pc \notin SetupPcs

\* C4, as claimed: from the start of training to the end of the run both
\* reserved rows of every model are zero.
C4_ReservedRowsStayZero ==
    FromTraining =>
        \A r \in Runs : \A i \in ModelsOf(r) :
            Weight(r, i)[unk] = 0 /\ Weight(r, i)[pad] = 0

\* model i of process r has not been through an optimizer step yet
NoStepYet(r, i) ==
    \/ pc = "trainMode"
    \/ /\ pc \in TrainPcs
       /\ \/ i > mi
          \/ i = mi /\ pc \in {"seed247", "optimizer"}
          \/ i = mi /\ runs[r].optimizer # None /\ runs[r].optimizer.owner = i
                    /\ runs[r].optimizer.step = 0

\* C4, amended: from the start of training to the end of the run the pad row of
\* every model is zero, and the unk row of a model is zero until that model's
\* first optimizer step.
C4_PadRowStaysZero ==
    FromTraining =>
        \A r \in Runs : \A i \in ModelsOf(r) :
            /\ Weight(r, i)[pad] = 0
            /\ NoStepYet(r, i) => Weight(r, i)[unk] = 0

HasPadding(b) == \E e \in 1..BatchLen(b) : b.textLen[e] < Len(b.text)

C4_Witness ==
    /\ pc = "done"
    /\ \E j \in 1..Len(trainIterator) : HasPadding(trainIterator[j])
    /\ \E r \in Runs : \E i \in ModelsOf(r) : Weight(r, i)[unk] # 0 /\ Weight(r, i)[pad] = 0

\* C5: every forward pass of the notebook returns without error a tensor of
\* shape (B, 1) for a batch of B examples, and the representation it hands to
\* the linear layer is as wide as that layer's input.
C5_ForwardShape ==
    /\ pc # "raised"
    /\ \A r \in Runs :
        /\ (runs[r].predictions # None) => runs[r].predictions.err = Ok
        /\ (pc \in {"criterion", "backward", "step", "accumulate", "evalCriterion",
                    "evalAccuracy"}) =>
            runs[r].predictions.returned = <<BatchLen(batch), 1>>
    /\ (pc \in {"forward", "evalForward"}) =>
        \A r \in Runs :
            LET m == runs[r].models[mi]
                x == Select(m, BatchLen(batch))
            IN x.err = Ok /\ x.shape = <<BatchLen(batch), m.dense.in_features>>

C5_Witness ==
    /\ pc = "criterion"
    /\ mi = 4
    /\ BatchLen(batch) = 2
    /\ \E r \in Runs : runs[r].predictions.returned = <<2, 1>>

\* C6: every value batchAccuracy returns lies in [0, 1], and every accuracy the
\* evaluation loop prints lies in [0, 100].
C6_AccuracyRange ==
    \A r \in Runs :
        /\ 0 <= runs[r].acc
        /\ runs[r].acc <= Unit
        /\ (runs[r].out # None /\ runs[r].out.line = "Validation Accuracy") =>
            LET v == runs[r].out.value IN
            /\ v[2] > 0
            /\ 0 <= v[1]
            /\ v[1] <= 100 * v[2]

C6_Witness ==
    \E r \in Runs :
        /\ runs[r].out # None
        /\ runs[r].out.line = "Validation Accuracy"
        /\ Len(testIterator) = 2
        /\ 0 < runs[r].out.value[1]
        /\ runs[r].out.value[1] < 100 * runs[r].out.value[2]

\* C7: for any logits and labels, and so for a batch of identical sequences,
\* batchAccuracy gives the same value on the logits and on the logits
\* multiplied by a positive factor.
C7_RescalingInvariant ==
    (unit.pc = "scored") => (unit.accRescaled = unit.acc)

C7_Witness ==
    /\ unit.pc = "scored"
    /\ Len(unit.preds) = 2
    /\ unit.preds[1] = unit.preds[2]
    /\ unit.preds[1] # 0
    /\ unit.scale > 1
    /\ unit.targets[1] # unit.targets[2]
    /\ unit.acc * 2 = Unit

OpsBefore(p) ==
    IF p = "batchLoop" THEN TrainBody
    ELSE SubSeq(TrainBody, 1, (CHOOSE i \in 1..Len(TrainBody) : TrainBody[i] = p) - 1)

\* C9: per variant the loop re-seeds once and builds one optimizer, runs
\* numEpochs epochs over the whole training stream; per batch the calls are
\* zero_grad, forward, loss, backward, step, accumulate in that order, with one
\* optimizer step per batch; epochLoss restarts from 0 every epoch and the value
\* printed is the sum of the epoch's losses over the number of training batches.
C9_TrainingLoop ==
    \A r \in Runs :
        LET s == runs[r]
            n == Len(trainIterator)
        IN
        /\ (pc \in {"epochLoop", "batchLoop", "print259", "print260"}
                \cup {TrainBody[i] : i \in 1..Len(TrainBody)}) =>
            /\ s.seeds = 1
            /\ s.optimizers = 1
            /\ s.optimizer.owner = mi
        /\ (pc \in {"batchLoop"} \cup {TrainBody[i] : i \in 1..Len(TrainBody)}) =>
            /\ (bi > 0) => s.ops = OpsBefore(pc)
            /\ s.epochs = epoch - 1
            /\ s.optimizer.step =
                (epoch - 1) * n + (IF pc \in {"batchLoop", "accumulate"} THEN bi ELSE bi - 1)
            /\ s.epochLoss = SumSeq(s.losses)
            /\ Len(s.losses) = (IF pc = "batchLoop" THEN bi ELSE bi - 1)
        /\ (pc = "batchLoop" /\ bi = 0) => s.epochLoss = 0
        /\ (pc = "epochLoop" /\ s.epochs > 0) =>
            /\ s.epochs = epoch
            /\ Len(s.losses) = n
            /\ s.optimizer.step = epoch * n
            /\ s.out = [line |-> "Train Loss", model |-> Tags[mi], epoch |-> epoch,
                        value |-> <<SumSeq(s.losses), Unit * n>>]
        /\ (pc = "print260") => s.epochs = numEpochs

C9_Witness ==
    /\ pc = "print260"
    /\ mi = 4
    /\ Len(trainIterator) = 2
    /\ \A r \in Runs : runs[r].epochs = numEpochs /\ runs[r].optimizer.step = 2 * numEpochs
                       /\ runs[r].out.value[1] > 0
                       /\ runs[r].losses[1] # runs[r].losses[2]

Params(r) == [i \in ModelsOf(r) |-> <<Weight(r, i), runs[r].models[i].theta>>]

\* C10: while the evaluation loop runs every model is in evaluation mode and
\* gradient tracking is off, its forward passes draw no random numbers and
\* record nothing to differentiate, and from model.eval() to the end of the run
\* no step changes a parameter of any model or the optimizer.
C10_EvalReadOnly ==
    /\ [](\A r \in Runs :
            /\ (pc \in EvalLoopPcs) =>
                /\ ~runs[r].gradEnabled
                /\ \A i \in ModelsOf(r) : ~runs[r].models[i].training
            /\ (pc \in {"evalCriterion", "evalAccuracy"}) => runs[r].predictions.graph = None)
    /\ [][(pc \in EvalLoopPcs \cup {"evalMode", "no_grad", "exit_no_grad"}) =>
            \A r \in Runs :
                /\ Params(r)' = Params(r)
                /\ runs[r].optimizer' = runs[r].optimizer
                /\ (pc \in EvalLoopPcs => runs[r].rng' = runs[r].rng)]_vars

C10_Witness ==
    /\ pc = "done"
    /\ Len(testIterator) = 2
    /\ \E r \in Runs :
        /\ runs[r].out.line = "Validation Accuracy"
        /\ \E i \in ModelsOf(r) : Weight(r, i)[word] # reviewVocabVectors[word]

\* the examples of a batch whose logit is >= 0 exactly when the label is 1
Hits(preds, targets) ==
    {e \in 1..Len(preds) : (preds[e] >= 0) <=> (targets[e] = 1)}

\* C11: batchAccuracy predicts the positive class exactly when the logit is
\* >= 0 (zero included) and returns the number of examples predicted as
\* labelled divided by the batch size; the evaluation loop prints, for each
\* variant in turn, the mean of these fractions over the evaluation batches
\* times 100.
C11_AccuracyReport ==
    /\ (unit.pc = "scored") =>
        unit.acc * Len(unit.preds) = Unit * Cardinality(Hits(unit.preds, unit.targets))
    /\ \A r \in Runs :
        /\ (pc = "evalBatchLoop" /\ bi > 0) =>
            LET p == runs[r].predictions.vals IN
            /\ Len(p) = BatchLen(batch)
            /\ runs[r].acc * Len(p) = Unit * Cardinality(Hits(p, batch.label))
            /\ Len(runs[r].accs) = bi
            /\ runs[r].accs[bi] = runs[r].acc
        /\ (pc = "evalLoop" /\ mi > 0) =>
            LET n == Len(testIterator) IN
            /\ runs[r].out.line = "Validation Accuracy"
            /\ runs[r].out.model = Tags[mi]
            /\ Len(runs[r].accs) = n
            /\ runs[r].out.value[2] > 0
            \* value = 100 * (sum of the fractions) / n
            /\ runs[r].out.value[1] * n * Unit =
                    100 * SumSeq(runs[r].accs) * runs[r].out.value[2]

C11_Witness ==
    /\ pc = "evalLoop"
    /\ mi > 0
    /\ bi = 2
    /\ \E r \in Runs :
        LET p == runs[r].predictions.vals IN
        /\ Len(runs[r].accs) = 2
        /\ runs[r].accs[1] # runs[r].accs[2]
        \* a logit of exactly zero on a negative example: predicted positive,
        \* so not counted
        /\ \E e \in 1..Len(p) : p[e] = 0 /\ batch.label[e] = 0
        /\ runs[r].acc < Unit

\* the variant the training loop is working on has an optimizer of its own
Training == pc \in TrainPcs \ {"trainLoop", "seed247", "optimizer"}

\* C12: the training loop takes the variants one at a time in the order RNN,
\* GRU, LSTM, BiLSTM: the optimizer in use belongs to the current variant, the
\* variants still to come hold what the initialisation gave them, no step of
\* the loop changes any model but the current one, and the loop moves on only
\* from its head, to the next variant, after the current one's last epoch.
C12_OneVariantAtATime ==
    /\ [](\A r \in Runs :
            /\ Training =>
                /\ mi \in 1..Len(Tags)
                /\ runs[r].models[mi].name = Tags[mi]
                /\ runs[r].optimizer.owner = mi
            /\ (pc \in TrainPcs) =>
                \A i \in ModelsOf(r) :
                    (i > mi) =>
                        /\ Weight(r, i)[word] = reviewVocabVectors[word]
                        /\ runs[r].models[i].grad = zero_grad(runs[r].models[i]).grad)
    /\ [][(pc \in TrainPcs) =>
            /\ \A r \in Runs :
                  \A i \in ModelsOf(r) :
                      (i # mi) => (runs[r].models[i]' = runs[r].models[i])
            /\ \/ mi' = mi
               \/ /\ pc = "trainLoop"
                  /\ mi > 0 => \A r \in Runs : runs[r].epochs = numEpochs
                  /\ mi' = IF mi < Len(Tags) THEN mi + 1 ELSE 0]_vars

C12_Witness ==
    /\ pc = "accumulate"
    /\ mi = 2
    /\ \E r \in Runs :
        /\ runs[r].optimizer.owner = 2
        /\ runs[r].optimizer.step > 0
        \* the first variant has been trained, the second is being trained,
        \* the third has not been touched
        /\ Weight(r, 1)[word] # reviewVocabVectors[word]
        /\ Weight(r, 2)[word] # reviewVocabVectors[word]
        /\ Weight(r, 3)[word] = reviewVocabVectors[word]

====
